---- MODULE Spec2Model ----
(***************************************************************************)
(* Model of the vscode_pytest plugin                                       *)
(* (extensions/positron-python/python_files/vscode_pytest/__init__.py).    *)
(*                                                                         *)
(* The plugin is a set of pytest hooks around a handful of module globals  *)
(* (ERRORS, IS_DISCOVERY, map_id_to_path, collected_tests_so_far,          *)
(* TEST_RUN_PIPE, SYMLINK_PATH, __writer).  Each hook is one action; the   *)
(* tree builder and the path helpers are operators.                        *)
(*                                                                         *)
(* Representation                                                          *)
(*   path    a sequence of segments; an absolute path starts with "/", so  *)
(*           <<"/">> is the filesystem root and <<>> is None (falsy)       *)
(*   id      [head |-> path, rest |-> segments]: a "::"-joined string      *)
(*           whose first "::" segment is head and later segments are rest  *)
(*   name    an atomic string; HasBracket, BracketHead and BracketTail     *)
(*           tabulate name.split("[", 1)                                   *)
(***************************************************************************)
EXTENDS Integers, Sequences, FiniteSets, TLC

VARIABLES
    ERRORS,                  \* module global ERRORS (list of strings)
    IS_DISCOVERY,            \* module global IS_DISCOVERY
    map_id_to_path,          \* module global map_id_to_path (dict nodeid -> path)
    collected_tests_so_far,  \* module global collected_tests_so_far (list of ids)
    TEST_RUN_PIPE,           \* module global TEST_RUN_PIPE (TRUE: set to a name)
    SYMLINK_PATH,            \* module global SYMLINK_PATH (<<>> is None)
    writer,                  \* module global __writer (TRUE: a connected PipeManager)
    sent,                    \* the payloads handed to __writer.write, in order
    phase,                   \* where the host is: "init", "running", "finished",
                             \* "aborted", "hung"; "collected", "built" for the builder
    args,                    \* the command line given to pytest
    session,                 \* the pytest session object (path and collected items)
    raised,                  \* the exception the last hook let escape, or "none"
    pipe_up,                 \* the consumer's end of the pipe accepts connects and writes
    lost,                    \* index in sent of the last write that failed (0: none)
    repeated,                \* a hook found its id in collected_tests_so_far already
    tree                     \* last result of build_test_tree (tree specification)

vars == <<ERRORS, IS_DISCOVERY, map_id_to_path, collected_tests_so_far,
          TEST_RUN_PIPE, SYMLINK_PATH, writer, sent, phase, args, session,
          raised, pipe_up, lost, repeated, tree>>

(***************************************************************************)
(* Bounds of the model.                                                    *)
(***************************************************************************)
\* hooks stop appending to ERRORS before session finish at this length
MaxErrors == 1
\* length of the item list handed to build_test_tree in the tree specification
MaxItems == 2
\* test ids the run-test hooks report before session finish
MaxReported == 2

(***************************************************************************)
(* Paths (pathlib.Path) and ids.                                           *)
(***************************************************************************)
None == <<>>

Range(s) == {s[i] : i \in 1..Len(s)}

\* pathlib.Path.parent: the root is its own parent
Parent(p) == IF Len(p) <= 1 THEN p ELSE SubSeq(p, 1, Len(p) - 1)

\* pathlib.Path.name: the last segment ("" for the root)
BaseName(p) == IF Len(p) <= 1 THEN "" ELSE p[Len(p)]

\* p lies at or below anc
IsPrefix(anc, p) == Len(anc) <= Len(p) /\ SubSeq(p, 1, Len(anc)) = anc

\* pathlib.Path.parents: every proper ancestor
Parents(p) == {SubSeq(p, 1, n) : n \in 1..(Len(p) - 1)}

\* os.path.commonpath of two absolute paths
RECURSIVE CommonLen(_, _, _)
CommonLen(a, b, n) ==
    IF n < Len(a) /\ n < Len(b) /\ a[n + 1] = b[n + 1]
    THEN CommonLen(a, b, n + 1) ELSE n

\* variant: the common path is taken to be the first path
commonpath_first(a, b) == a

commonpath(a, b) == SubSeq(a, 1, CommonLen(a, b, 0))

\* os.fspath(path) used as an id: a string with no "::" in it
fspath(p) == [head |-> p, rest |-> <<>>]

Cwd == <<"/", "real", "proj">>

\* the filesystem the process runs in: /link/proj and /sym are symbolic links
Links == {<<"/", "link", "proj">>, <<"/", "sym">>}
Missing == {<<"/", "gone">>}

exists(p) == p \notin Missing
islink(p) == p \in Links

(***************************************************************************)
(* The host's objects.  A collector (pytest.File, pytest.Class) or an item *)
(* is a record; `obj` is the identity of the Python object, `chain` is the *)
(* .parent chain of an item from its direct parent outwards, ending where  *)
(* .parent is None.  Markers carry the truthiness of their arguments.      *)
(***************************************************************************)
Marker(n, a) == [name |-> n, args |-> a]

Collector(k, o, n, id, p, m) ==
    [kind |-> k, obj |-> o, name |-> n, nodeid |-> id, path |-> p, fspath |-> p,
     own_markers |-> m]

Item(n, id, p, ln, cs, orig, m, ch) ==
    [name |-> n, nodeid |-> id, path |-> p, fspath |-> p, location |-> ln,
     callspec |-> cs, originalname |-> orig, own_markers |-> m, chain |-> ch]

\* location[1] is None
NoLine == -1
\* the item has no originalname attribute
NoAttr == ""

\* name.split("[", 1) for the names of the model
HasBracket(n) == n \in {"test_x[1]", "test_x[2]"}
BracketHead(n) == IF HasBracket(n) THEN "test_x" ELSE n
BracketTail(n) == CASE n = "test_x[1]" -> "[1]" [] n = "test_x[2]" -> "[2]" [] OTHER -> ""

FileT == \* /real/proj/t.py
    Collector("file", "m1", "t.py", [head |-> <<"t.py">>, rest |-> <<>>],
              Cwd \o <<"t.py">>, <<>>)
FileTAgain == \* a second Module object collected for the same file
    Collector("file", "m1b", "t.py", [head |-> <<"t.py">>, rest |-> <<>>],
              Cwd \o <<"t.py">>, <<>>)
FileU == \* /real/proj/pkg/u.py
    Collector("file", "m2", "u.py", [head |-> <<"pkg", "u.py">>, rest |-> <<>>],
              Cwd \o <<"pkg", "u.py">>, <<>>)
FileV == \* /real/other/v.py, outside the working directory
    Collector("file", "m4", "v.py", [head |-> <<"..", "other", "v.py">>, rest |-> <<>>],
              <<"/", "real", "other", "v.py">>, <<>>)
FileL == \* /link/proj/w.py, collected through the symbolic link
    Collector("file", "m5", "w.py", [head |-> <<"w.py">>, rest |-> <<>>],
              <<"/", "link", "proj", "w.py">>, <<>>)

ClassA == Collector("class", "cA", "A", [head |-> <<"t.py">>, rest |-> <<"A">>],
                    FileT.path, <<>>)
ClassB == Collector("class", "cB", "B", [head |-> <<"t.py">>, rest |-> <<"B">>],
                    FileT.path, <<Marker("skipif", <<FALSE, TRUE>>)>>)
ClassInner == Collector("class", "cI", "Inner",
                        [head |-> <<"t.py">>, rest |-> <<"A", "Inner">>],
                        FileT.path, <<>>)
ClassO == \* a class whose .parent is None
    Collector("class", "cO", "O", [head |-> <<"t.py">>, rest |-> <<"O">>],
              FileT.path, <<>>)

Tid(head, rest) == [head |-> head, rest |-> rest]

T_a  == Item("test_a", Tid(<<"t.py">>, <<"test_a">>), FileT.path, 3, FALSE,
             "test_a", <<>>, <<FileT>>)
T_s  == Item("test_s", Tid(<<"t.py">>, <<"test_s">>), FileT.path, 9, FALSE,
             "test_s", <<Marker("other", <<>>), Marker("skip", <<>>)>>, <<FileT>>)
T_x1 == Item("test_x[1]", Tid(<<"t.py">>, <<"test_x[1]">>), FileT.path, 5, TRUE,
             "test_x", <<Marker("skipif", <<FALSE>>)>>, <<FileT>>)
T_x2 == Item("test_x[2]", Tid(<<"t.py">>, <<"test_x[2]">>), FileT.path, 5, TRUE,
             "test_x", <<>>, <<FileT>>)
A_a  == Item("test_a", Tid(<<"t.py">>, <<"A", "test_a">>), FileT.path, 12, FALSE,
             "test_a", <<>>, <<ClassA, FileT>>)
A_x1 == Item("test_x[1]", Tid(<<"t.py">>, <<"A", "test_x[1]">>), FileT.path, 14, TRUE,
             "test_x", <<>>, <<ClassA, FileT>>)
B_x1 == Item("test_x[1]", Tid(<<"t.py">>, <<"B", "test_x[1]">>), FileT.path, 20, TRUE,
             "test_x", <<>>, <<ClassB, FileT>>)
I_a  == Item("test_a", Tid(<<"t.py">>, <<"A", "Inner", "test_a">>), FileT.path, 16,
             FALSE, "test_a", <<>>, <<ClassInner, ClassA, FileT>>)
O_a  == Item("test_a", Tid(<<"t.py">>, <<"O", "test_a">>), FileT.path, 30, FALSE,
             "test_a", <<>>, <<ClassO>>)
D_a  == Item("test_a", Tid(<<"t.py">>, <<"test_a">>), FileT.path, 3, FALSE,
             "test_a", <<>>, <<FileTAgain>>)
U_a  == Item("test_a", Tid(<<"pkg", "u.py">>, <<"test_a">>), FileU.path, NoLine, FALSE,
             "test_a", <<>>, <<FileU>>)
V_a  == Item("test_a", Tid(<<"..", "other", "v.py">>, <<"test_a">>), FileV.path, 1,
             FALSE, "test_a", <<>>, <<FileV>>)
L_a  == Item("test_a", Tid(<<"w.py">>, <<"test_a">>), FileL.path, 1, FALSE,
             "test_a", <<>>, <<FileL>>)
P_a  == \* an item the host gave neither a path nor an fspath
        Item("test_a", Tid(<<"t.py">>, <<"test_a">>), None, 1, FALSE, "test_a", <<>>,
             <<FileT>>)
N_x  == \* a parameterized item without an originalname attribute
        Item("test_x[2]", Tid(<<"pkg", "u.py">>, <<"test_x[2]">>), FileU.path, 7, TRUE,
             NoAttr, <<>>, <<FileU>>)


(***************************************************************************)
(* get_node_path, lines 689-722.  The result is [ok, path]: ok = FALSE is  *)
(* the VSCodePytestError the function raises.                              *)
(***************************************************************************)
Ok(p) == [ok |-> TRUE, path |-> p]
Raise == [ok |-> FALSE, path |-> None]

\* node_path.relative_to(cwd): raises ValueError unless node_path is below cwd
relative_to(p, base) ==
    IF IsPrefix(base, p) THEN Ok(SubSeq(p, Len(base) + 1, Len(p))) ELSE Raise

node_path_of(node) == IF node.path # None THEN node.path ELSE node.fspath

get_node_path(node, isSession) ==
    LET node_path == node_path_of(node) IN
    IF node_path = None THEN Raise
    ELSE IF SYMLINK_PATH # None /\ ~isSession
    THEN IF commonpath(SYMLINK_PATH, node_path) = SYMLINK_PATH
         THEN Ok(node_path)
         ELSE LET rel == relative_to(node_path, Cwd) IN
              IF rel.ok THEN Ok(SYMLINK_PATH \o rel.path) ELSE Raise
    ELSE Ok(node_path)

\* variant: the id keeps its first segment, relative to the root directory
get_absolute_test_id_relative(test_id, testPath) == test_id

(***************************************************************************)
(* get_absolute_test_id, lines 170-182: test_id.split("::")[1:] joined     *)
(* behind str(testPath).                                                   *)
(***************************************************************************)
get_absolute_test_id(test_id, testPath) == [head |-> testPath, rest |-> test_id.rest]

(***************************************************************************)
(* check_skipped_condition and check_skipped_wrapper, lines 312-347.       *)
(***************************************************************************)
any(bs) == \E i \in 1..Len(bs) : bs[i]

check_skipped_condition(node) ==
    \E i \in 1..Len(node.own_markers) :
        LET marker == node.own_markers[i]
            skip_condition == marker.name = "skipif" /\ any(marker.args)
        IN marker.name = "skip" \/ skip_condition

\* the classes at the head of the parent chain: the while loop of line 324
RECURSIVE ClassPrefixLen(_, _)
ClassPrefixLen(chain, n) ==
    IF n < Len(chain) /\ chain[n + 1].kind = "class"
    THEN ClassPrefixLen(chain, n + 1) ELSE n

check_skipped_wrapper(item) ==
    \/ Len(item.own_markers) > 0 /\ check_skipped_condition(item)
    \/ \E k \in 1..ClassPrefixLen(item.chain, 0) :
           Len(item.chain[k].own_markers) > 0 /\ check_skipped_condition(item.chain[k])

(***************************************************************************)
(* Tree nodes (TestNode / TestItem, lines 22-41).  Python dicts are        *)
(* objects: the builder keeps them in a heap, a node's identity is its     *)
(* index, and `children` holds indices.  A dict of the builder is a        *)
(* sequence of [key, val] in insertion order.                              *)
(***************************************************************************)
NoId == [head |-> None, rest |-> <<>>]

Node(n, p, t, id, ln, run) ==
    [name |-> n, path |-> p, type_ |-> t, id_ |-> id, children |-> <<>>,
     lineno |-> ln, runID |-> run]

\* the value of a node as json.dumps walks it (and as dict == compares it)
RECURSIVE Val(_, _)
Val(heap, i) ==
    LET n == heap[i] IN
    [name |-> n.name, path |-> n.path, type_ |-> n.type_, id_ |-> n.id_,
     lineno |-> n.lineno, runID |-> n.runID,
     children |-> [k \in 1..Len(n.children) |-> Val(heap, n.children[k])]]

HasKey(d, key) == \E i \in 1..Len(d) : d[i].key = key
Lookup(d, key) == d[CHOOSE i \in 1..Len(d) : d[i].key = key].val

\* `node in parent["children"]`: list membership is identity or ==
InChildren(b, child, parent) ==
    \E k \in 1..Len(b.heap[parent].children) :
        LET c == b.heap[parent].children[k] IN
        c = child \/ Val(b.heap, c) = Val(b.heap, child)

Alloc(b, node) == [b EXCEPT !.heap = Append(@, node), !.ret = Len(b.heap) + 1]
AddChild(b, parent, child) == [b EXCEPT !.heap[parent].children = Append(@, child)]
AddChildIfAbsent(b, parent, child) ==
    IF InChildren(b, child, parent) THEN b ELSE AddChild(b, parent, child)
Fail(b, how) == [b EXCEPT !.status = how]
LogError(b, e) == [b EXCEPT !.errors = Append(@, e)]

\* create_test_node, lines 555-574
create_test_node(test_case, p) ==
    LET test_case_loc == IF test_case.location # NoLine
                         THEN <<test_case.location + 1>> ELSE <<>>
        absolute_test_id == get_absolute_test_id(test_case.nodeid, p)
    IN Node(test_case.name, p, "test", absolute_test_id, test_case_loc,
            absolute_test_id)

\* create_session_node, lines 577-590
create_session_node(node_path) ==
    Node(BaseName(node_path), node_path, "folder", fspath(node_path), <<>>, NoId)

\* create_class_node, lines 593-605
create_class_node(class_module, p) ==
    Node(class_module.name, p, "class", class_module.nodeid, <<>>, NoId)

\* create_parameterized_function_node, lines 608-626
create_parameterized_function_node(function_name, test_path, test_id) ==
    LET function_id == [head |-> test_id.head, rest |-> <<function_name>>]
    IN Node(function_name, test_path, "function", function_id, <<>>, NoId)

\* create_file_node, lines 629-642
create_file_node(node_path) ==
    Node(BaseName(node_path), node_path, "file", fspath(node_path), <<>>, NoId)

\* create_folder_node, lines 645-658
create_folder_node(folder_name, path_iterator) ==
    Node(folder_name, path_iterator, "folder", fspath(path_iterator), <<>>, NoId)

\* the error node of pytest_sessionfinish, lines 371-377 and 391-397
errorNode(cwd) == Node("", cwd, "error", NoId, <<>>, NoId)

(***************************************************************************)
(* build_test_tree, lines 419-521.  The builder state b holds the heap,    *)
(* the four dicts of the function, created_files_folders_dict, the ERRORS  *)
(* list, the node the last step produced (ret) and how the build stands:   *)
(* "ok", "raise" (an exception left the function), "break" (line 491) or   *)
(* "diverge" (the walk of build_nested_folders cannot end).  Each step     *)
(* takes the builder state the step before it produced.                    *)
(***************************************************************************)
Register(b, dict, key) ==
    [b EXCEPT ![dict] = Append(@, [key |-> key, val |-> b.ret])]

\* create_file_node(module) and file_nodes_dict[module] = it, with the path resolved
NewFileNode(b, module, np) ==
    IF ~np.ok THEN Fail(b, "raise")
    ELSE Register(Alloc(b, create_file_node(np.path)), "file_nodes_dict", module.obj)

\* file_nodes_dict[module], or create_file_node(module): lines 460-464, 493-497, 503-507
GetFileNode(b, module) ==
    IF HasKey(b.file_nodes_dict, module.obj)
    THEN [b EXCEPT !.ret = Lookup(b.file_nodes_dict, module.obj)]
    ELSE NewFileNode(b, module, get_node_path(module, FALSE))

NewClassNode(b, case_iter, np) ==
    IF ~np.ok THEN Fail(b, "raise")
    ELSE Register(Alloc(b, create_class_node(case_iter, np.path)),
                  "class_nodes_dict", case_iter.nodeid)

\* class_nodes_dict[case_iter.nodeid], or create_class_node(case_iter): lines 475-479
GetClassNode(b, case_iter) ==
    IF HasKey(b.class_nodes_dict, case_iter.nodeid)
    THEN [b EXCEPT !.ret = Lookup(b.class_nodes_dict, case_iter.nodeid)]
    ELSE NewClassNode(b, case_iter, get_node_path(case_iter, FALSE))

\* the key of function_nodes_dict, line 443
FunctionKey(p, parent_part) == [head |-> p, rest |-> <<parent_part>>]

\* variant: every variant gets a function node of its own
GetFunctionNode_always_new(b, test_case, p, parent_path) ==
    Register(Alloc(b, create_parameterized_function_node(
                          test_case.originalname, p, test_case.nodeid)),
             "function_nodes_dict", parent_path)

\* function_nodes_dict[parent_path], or a new function node: lines 446, 452-456
GetFunctionNode(b, test_case, p, parent_path) ==
    IF HasKey(b.function_nodes_dict, parent_path)
    THEN [b EXCEPT !.ret = Lookup(b.function_nodes_dict, parent_path)]
    ELSE Register(Alloc(b, create_parameterized_function_node(
                               test_case.originalname, p, test_case.nodeid)),
                  "function_nodes_dict", parent_path)

ParentIsFile(test_case) ==
    Len(test_case.chain) > 0 /\ test_case.chain[1].kind = "file"
ParentIsClass(test_case) ==
    Len(test_case.chain) > 0 /\ test_case.chain[1].kind = "class"

\* parent["children"].append(child) when `child not in parent["children"]`,
\* parent being the node the step before produced: lines 465-466, 499-500
AttachIfAbsent(b, child) ==
    IF b.status # "ok" THEN b ELSE AddChildIfAbsent(b, b.ret, child)

\* parent_test_case["children"].append(test_node), line 508
Attach(b, child) == IF b.status # "ok" THEN b ELSE AddChild(b, b.ret, child)

Returning(b, node) == IF b.status # "ok" THEN b ELSE [b EXCEPT !.ret = node]

\* lines 457-468: b.ret is function_test_node, t the test node
NestVariant(b, test_case, t) ==
    IF ParentIsFile(test_case)
    THEN Returning(AttachIfAbsent(GetFileNode(AddChild(b, b.ret, t),
                                              test_case.chain[1]), b.ret), b.ret)
    ELSE AddChild(b, b.ret, t)

\* the parameterized branch, lines 438-468; ret is the node nested from here on
Parameterize(b, test_case, p, t) ==
    IF ~HasBracket(test_case.name) THEN Fail(b, "raise")
    ELSE IF test_case.originalname = NoAttr
    THEN Fail(LogError([b EXCEPT !.heap[t].name = BracketTail(test_case.name)],
                       "no_originalname"), "raise")
    ELSE NestVariant(GetFunctionNode(
                         [b EXCEPT !.heap[t].name = BracketTail(test_case.name)],
                         test_case, p, FunctionKey(p, BracketHead(test_case.name))),
                     test_case, t)

\* the class branch, lines 469-500: chain[k] is case_iter, child is node_child_iter
RECURSIVE ClassChain(_, _, _, _)
ClassStep(b, chain, child, k) ==
    IF b.status # "ok" THEN b
    ELSE ClassChain(AddChildIfAbsent(b, b.ret, child), chain, b.ret, k + 1)

ClassChain(b, chain, child, k) ==
    IF k <= Len(chain) /\ chain[k].kind = "class"
    THEN ClassStep(GetClassNode(b, chain[k]), chain, child, k)
    ELSE IF k > Len(chain)
    THEN Fail(LogError(b, "no_parent"), "break")
    ELSE AttachIfAbsent(GetFileNode(b, chain[k]), child)

\* lines 469-508, b.ret being test_node
NestItem(b, test_case) ==
    IF b.status # "ok" THEN b
    ELSE IF ParentIsClass(test_case) THEN ClassChain(b, test_case.chain, b.ret, 1)
    ELSE IF ~test_case.callspec
    THEN IF Len(test_case.chain) = 0 THEN Fail(b, "raise")
         ELSE Attach(GetFileNode(b, test_case.chain[1]), b.ret)
    ELSE b

\* lines 438-468, b.ret being the test node of line 437
NestParameterized(b, test_case, p) ==
    IF test_case.callspec THEN Parameterize(b, test_case, p, b.ret) ELSE b

ProcessResolved(b, test_case, np) ==
    IF ~np.ok THEN Fail(b, "raise")
    ELSE NestItem(NestParameterized(Alloc(b, create_test_node(test_case, np.path)),
                                    test_case, np.path),
                  test_case)

\* one iteration of the loop over session.items, lines 436-508
ProcessItem(b, test_case) ==
    ProcessResolved(b, test_case, get_node_path(test_case, FALSE))

RECURSIVE ItemLoop(_, _, _)
ItemLoop(b, items, i) ==
    IF i > Len(items) \/ b.status # "ok" THEN b
    ELSE ItemLoop(ProcessItem(b, items[i]), items, i + 1)

\* created_files_folders_dict[path], or create_folder_node: lines 543-547
GetFolderNode(b, iterator_path) ==
    IF HasKey(b.created_files_folders_dict, fspath(iterator_path))
    THEN [b EXCEPT !.ret = Lookup(b.created_files_folders_dict, fspath(iterator_path))]
    ELSE Register(Alloc(b, create_folder_node(BaseName(iterator_path), iterator_path)),
                  "created_files_folders_dict", fspath(iterator_path))

\* build_nested_folders, lines 524-552; ret is the node returned
RECURSIVE build_nested_folders(_, _, _, _)
FolderStep(b, prev_folder_node, iterator_path, sess) ==
    build_nested_folders(AddChildIfAbsent(b, b.ret, prev_folder_node), b.ret,
                         Parent(iterator_path), sess)

FolderWalk(b, prev_folder_node, iterator_path, sess, sp) ==
    IF ~sp.ok THEN Fail(b, "raise")
    ELSE IF iterator_path = sp.path THEN [b EXCEPT !.ret = prev_folder_node]
    ELSE IF Parent(iterator_path) = iterator_path THEN Fail(b, "diverge")
    ELSE FolderStep(GetFolderNode(b, iterator_path), prev_folder_node, iterator_path,
                    sess)

build_nested_folders(b, prev_folder_node, iterator_path, sess) ==
    FolderWalk(b, prev_folder_node, iterator_path, sess, get_node_path(sess, TRUE))

\* lines 517-519: b.ret is root_folder_node
AddSessionChild(b) ==
    IF b.status # "ok" THEN b
    ELSE IF b.heap[b.ret].id_ # NoId
            /\ ~HasKey(b.session_children_dict, b.heap[b.ret].id_)
    THEN Register(b, "session_children_dict", b.heap[b.ret].id_)
    ELSE b

\* the loop over file_nodes_dict, lines 509-519
RECURSIVE FileLoop(_, _, _)
FileLoop(b, sess, i) ==
    IF i > Len(b.file_nodes_dict) \/ b.status # "ok" THEN b
    ELSE FileLoop(AddSessionChild(build_nested_folders(
                      b, b.file_nodes_dict[i].val,
                      Parent(b.heap[b.file_nodes_dict[i].val].path), sess)),
                  sess, i + 1)

SessionRoot == 1

\* variant: the session node keeps the working directory under a symlink root
StartBuild_without_symlink(sp, errors) ==
    [heap |-> << create_session_node(Cwd) >>,
     session_children_dict |-> <<>>, file_nodes_dict |-> <<>>,
     class_nodes_dict |-> <<>>, function_nodes_dict |-> <<>>,
     created_files_folders_dict |-> <<>>,
     errors |-> errors, ret |-> 1,
     status |-> IF sp.ok THEN "ok" ELSE "raise"]

\* lines 425-434
StartBuild(sp, errors) ==
    [heap |-> << IF SYMLINK_PATH # None
                 THEN [create_session_node(sp.path) EXCEPT
                           !.path = SYMLINK_PATH, !.id_ = fspath(SYMLINK_PATH)]
                 ELSE create_session_node(sp.path) >>,
     session_children_dict |-> <<>>, file_nodes_dict |-> <<>>,
     class_nodes_dict |-> <<>>, function_nodes_dict |-> <<>>,
     created_files_folders_dict |-> <<>>,
     errors |-> errors, ret |-> SessionRoot,
     status |-> IF sp.ok THEN "ok" ELSE "raise"]

\* the break of line 491 leaves the loop over the items, not the function
AfterItems(b) == IF b.status = "break" THEN Fail(b, "ok") ELSE b

\* lines 520-521
ReturnSession(b) ==
    IF b.status # "ok" THEN b
    ELSE [b EXCEPT !.heap[SessionRoot].children =
                       [k \in 1..Len(b.session_children_dict) |->
                           b.session_children_dict[k].val],
                   !.ret = SessionRoot]

build_test_tree(sess, errors) ==
    ReturnSession(FileLoop(AfterItems(ItemLoop(
        StartBuild(get_node_path(sess, TRUE), errors), sess.items, 1)), sess, 1))

\* the tree as it is serialised; only for a build that returned
TreeOf(b) == Val(b.heap, SessionRoot)

(***************************************************************************)
(* Payloads (lines 661-686) and the channel.  A channel state is           *)
(* [writer, sent, lost]; a send   returns the new channel state and        *)
(* whether VSCodePytestError left send_post_request.  `sent` keeps every   *)
(* payload handed to __writer.write, whether or not the write went through.*)
(***************************************************************************)
NoTree == [name |-> "", path |-> None, type_ |-> "none", id_ |-> NoId,
           lineno |-> <<>>, runID |-> NoId, children |-> <<>>]

Payload(kind, cwd, status, tests, result, error, command_type) ==
    [kind |-> kind, cwd |-> cwd, status |-> status, tests |-> tests,
     result |-> result, error |-> error, command_type |-> command_type]

\* create_test_outcome, lines 208-222, inside a testRunResultDict of one key
create_test_outcome(testid, outcome, message) ==
    <<[test |-> testid, outcome |-> outcome, message |-> message]>>

Chan == [writer |-> writer, sent |-> sent, lost |-> lost]

\* send_post_request, lines 777-834: connect and write fail while the pipe is down
send_post_request(ch, payload) ==
    IF ~TEST_RUN_PIPE THEN [ch |-> ch, exc |-> TRUE]
    ELSE IF ~ch.writer /\ ~pipe_up THEN [ch |-> ch, exc |-> TRUE]
    ELSE [ch |-> [ch EXCEPT !.writer = TRUE, !.sent = Append(@, payload),
                            !.lost = IF pipe_up THEN @ ELSE Len(ch.sent) + 1],
          exc |-> FALSE]

\* variant: the payload leaves the error list out
execution_post_without_errors(ch, errors, cwd, status, tests) ==
    send_post_request(ch, Payload("execution", cwd, status, NoTree, tests, <<>>, ""))

\* execution_post, lines 729-746
execution_post(ch, errors, cwd, status, tests) ==
    send_post_request(ch, Payload("execution", cwd, status, NoTree, tests,
                                  IF errors # <<>> THEN errors ELSE <<>>, ""))

\* the status post_response gives a payload, line 759
DiscoveryStatus(errors) == IF errors = <<>> THEN "success" ELSE "error"

\* post_response, lines 749-765
post_response(ch, errors, cwd, session_node) ==
    send_post_request(ch, Payload("discovery", cwd, DiscoveryStatus(errors),
                                  session_node, <<>>, errors, ""))

\* the end of transmission payload, lines 414-416
EOTPayload(command_type) ==
    Payload("eot", None, "", NoTree, <<>>, <<>>, command_type)

\* variant: the hooks do not look into collected_tests_so_far
NotCollected_unchecked(id) == TRUE

\* `absolute_node_id not in collected_tests_so_far`, lines 137, 260, 294
NotCollected(id) == id \notin Range(collected_tests_so_far)

\* the cwd of pytest_report_teststatus and pytest_sessionfinish, lines 241-243, 364-367
SymlinkCwd == IF SYMLINK_PATH # None THEN SYMLINK_PATH ELSE Cwd

\* variant: the send is made without the id being recorded
Reported_without_record(id, r) ==
    /\ Len(collected_tests_so_far) < MaxReported
    /\ collected_tests_so_far' = collected_tests_so_far
    /\ writer' = r.ch.writer
    /\ sent' = r.ch.sent
    /\ lost' = r.ch.lost
    /\ raised' = IF r.exc THEN "VSCodePytestError" ELSE "none"
    /\ UNCHANGED repeated

\* lines 138-152, 261-274, 295-308: the id is recorded, then the send is made
Reported(id, r) ==
    /\ Len(collected_tests_so_far) < MaxReported
    /\ collected_tests_so_far' = Append(collected_tests_so_far, id)
    /\ writer' = r.ch.writer
    /\ sent' = r.ch.sent
    /\ lost' = r.ch.lost
    /\ raised' = IF r.exc THEN "VSCodePytestError" ELSE "none"
    /\ UNCHANGED repeated

\* the report of one result: lines 137-152, 260-274, 294-308
ReportResult(id, outcome, message, cwd) ==
    IF NotCollected(id)
    THEN Reported(id, execution_post(Chan, ERRORS, cwd, "success",
                                     create_test_outcome(id, outcome, message)))
    ELSE /\ raised' = "none"
         /\ repeated' = TRUE
         /\ UNCHANGED <<collected_tests_so_far, writer, sent, lost>>

(***************************************************************************)
(* The command line and the session the host hands to the hooks.           *)
(***************************************************************************)
Args(collect_only, rootdir) == [collect_only |-> collect_only, rootdir |-> rootdir]

\* config.rootpath: the --rootdir argument as given, else the working directory
SessionFor(a, items) ==
    [path |-> IF a.rootdir # None THEN a.rootdir ELSE Cwd, fspath |-> None,
     items |-> items]

LinkProj == <<"/", "link", "proj">>
SymProj == <<"/", "sym", "proj">>
Gone == <<"/", "gone">>

\* the runs of the protocol specification: a command line and what was collected
Scenario(collect_only, rootdir, items) ==
    [args |-> Args(collect_only, rootdir), items |-> items]

Scenarios ==
    {Scenario(FALSE, None, <<T_s>>), Scenario(FALSE, LinkProj, <<B_x1>>),
     Scenario(FALSE, SymProj, <<V_a, T_s>>), Scenario(FALSE, Cwd, <<>>),
     Scenario(TRUE, None, <<>>), Scenario(TRUE, Cwd, <<T_a, T_s>>),
     Scenario(TRUE, LinkProj, <<A_x1, B_x1>>), Scenario(TRUE, None, <<N_x>>),
     Scenario(TRUE, None, <<V_a>>), Scenario(TRUE, SymProj, <<V_a>>),
     Scenario(TRUE, None, <<O_a, T_a>>), Scenario(TRUE, None, <<P_a>>),
     Scenario(TRUE, Gone, <<>>), Scenario(FALSE, Gone, <<T_a>>)}

(***************************************************************************)
(* pytest_load_initial_conftests, lines 59-99.                             *)
(***************************************************************************)
\* has_symlink_parent, lines 155-167
has_symlink_parent(current_path) == \E parent \in Parents(current_path) : islink(parent)

\* line 91 compares a pathlib.Path with the str rootdir: never equal
RealpathDiffers(rootdir) == TRUE

\* variant: only the root directory itself is looked at
isSymlink_rootdir_only(rootdir) == islink(rootdir)

isSymlink(rootdir) ==
    IF islink(rootdir) THEN TRUE
    ELSE IF RealpathDiffers(rootdir) THEN has_symlink_parent(rootdir) ELSE FALSE

pytest_load_initial_conftests ==
    /\ phase = "init"
    /\ IS_DISCOVERY' = (IF args.collect_only THEN TRUE ELSE IS_DISCOVERY)
    /\ IF args.rootdir # None /\ ~exists(args.rootdir)
       THEN /\ phase' = "aborted"
            /\ raised' = "VSCodePytestError"
            /\ UNCHANGED SYMLINK_PATH
       ELSE /\ phase' = "running"
            /\ raised' = "none"
            /\ SYMLINK_PATH' = IF args.rootdir # None /\ isSymlink(args.rootdir)
                               THEN args.rootdir ELSE SYMLINK_PATH
    /\ UNCHANGED <<ERRORS, map_id_to_path, collected_tests_so_far, TEST_RUN_PIPE,
                   writer, sent, args, session, pipe_up, lost, repeated, tree>>

(***************************************************************************)
(* The hooks of a running session.  The host calls the run-test hooks only *)
(* when it runs tests, that is without --collect-only.                     *)
(***************************************************************************)
\* pytest_internalerror, lines 102-110
pytest_internalerror ==
    /\ phase = "running"
    /\ Len(ERRORS) < MaxErrors
    /\ ERRORS' = Append(ERRORS, "exconly")
    /\ raised' = "none"
    /\ UNCHANGED <<IS_DISCOVERY, map_id_to_path, collected_tests_so_far,
                   TEST_RUN_PIPE, SYMLINK_PATH, writer, sent, phase, args, session,
                   pipe_up, lost, repeated, tree>>

\* pytest_keyboard_interrupt, lines 185-192
pytest_keyboard_interrupt ==
    /\ phase = "running"
    /\ Len(ERRORS) < MaxErrors
    /\ ERRORS' = Append(ERRORS, "exconly")
    /\ raised' = "none"
    /\ UNCHANGED <<IS_DISCOVERY, map_id_to_path, collected_tests_so_far,
                   TEST_RUN_PIPE, SYMLINK_PATH, writer, sent, phase, args, session,
                   pipe_up, lost, repeated, tree>>

\* variant: every exception of a test is reported as "error"
ExceptionOutcome_always_error(typename) == "error"

\* the outcome pytest_exception_interact reports, lines 133-135
ExceptionOutcome(typename) == IF typename = "AssertionError" THEN "failure" ELSE "error"

\* the body of pytest_exception_interact, lines 124-152, for one call
exception_interact(node, typename, skiptest) ==
    IF IS_DISCOVERY
    THEN /\ Len(ERRORS) < MaxErrors
         /\ ERRORS' = IF typename # "AssertionError"
                      THEN IF skiptest THEN ERRORS
                           ELSE Append(ERRORS, "exconly")
                      ELSE Append(ERRORS, "longreprtext")
         /\ raised' = "none"
         /\ UNCHANGED <<collected_tests_so_far, writer, sent, lost, repeated>>
    ELSE LET np == get_node_path(node, FALSE) IN
         /\ UNCHANGED ERRORS
         /\ IF ~np.ok
            THEN /\ raised' = "VSCodePytestError"
                 /\ UNCHANGED <<collected_tests_so_far, writer, sent, lost, repeated>>
            ELSE ReportResult(get_absolute_test_id(node.nodeid, np.path),
                              ExceptionOutcome(typename),
                              "Test failed with exception", Cwd)

\* pytest_exception_interact, lines 113-152
pytest_exception_interact ==
    /\ phase = "running"
    /\ \E node \in Range(session.items), typename \in {"AssertionError", "Other"},
          skiptest \in BOOLEAN : exception_interact(node, typename, skiptest)
    /\ UNCHANGED <<IS_DISCOVERY, map_id_to_path, TEST_RUN_PIPE, SYMLINK_PATH, phase,
                   args, session, pipe_up, tree>>

\* the outcome pytest_report_teststatus reports, lines 248-253
StatusOutcome(outcome) ==
    IF outcome = "passed" THEN "success"
    ELSE IF outcome = "failed" THEN "failure" ELSE "skipped"

\* pytest_report_teststatus, lines 232-275
pytest_report_teststatus ==
    /\ phase = "running"
    /\ ~IS_DISCOVERY
    /\ \E item \in Range(session.items), when \in {"setup", "call", "teardown"},
          outcome \in {"passed", "failed", "skipped"} :
          IF when = "call"
          THEN LET node_path == IF HasKey(map_id_to_path, item.nodeid)
                                THEN Lookup(map_id_to_path, item.nodeid)
                                ELSE SymlinkCwd
               IN ReportResult(get_absolute_test_id(item.nodeid, node_path),
                               StatusOutcome(outcome),
                               IF outcome = "failed" THEN "longreprtext" ELSE "",
                               SymlinkCwd)
          ELSE /\ raised' = "none"
               /\ UNCHANGED <<collected_tests_so_far, writer, sent, lost, repeated>>
    /\ UNCHANGED <<ERRORS, IS_DISCOVERY, map_id_to_path, TEST_RUN_PIPE, SYMLINK_PATH,
                   phase, args, session, pipe_up, tree>>

\* map_id_to_path[key] = value
DictSet(d, key, value) ==
    IF HasKey(d, key)
    THEN [i \in 1..Len(d) |-> IF d[i].key = key THEN [key |-> key, val |-> value]
                              ELSE d[i]]
    ELSE Append(d, [key |-> key, val |-> value])

\* pytest_runtest_protocol, lines 286-309
pytest_runtest_protocol ==
    /\ phase = "running"
    /\ ~IS_DISCOVERY
    /\ \E item \in Range(session.items) :
          LET np == get_node_path(item, FALSE) IN
          IF ~np.ok
          THEN /\ raised' = "VSCodePytestError"
               /\ UNCHANGED <<map_id_to_path, collected_tests_so_far, writer, sent,
                              lost, repeated>>
          ELSE /\ map_id_to_path' = DictSet(map_id_to_path, item.nodeid, np.path)
               /\ IF check_skipped_wrapper(item)
                  THEN ReportResult(get_absolute_test_id(item.nodeid, np.path),
                                    "skipped", "", Cwd)
                  ELSE /\ raised' = "none"
                       /\ UNCHANGED <<collected_tests_so_far, writer, sent, lost, repeated>>
    /\ UNCHANGED <<ERRORS, IS_DISCOVERY, TEST_RUN_PIPE, SYMLINK_PATH, phase, args,
                   session, pipe_up, tree>>

(***************************************************************************)
(* pytest_sessionfinish, lines 350-416.                                    *)
(***************************************************************************)
\* ERROR_MESSAGE_CONST, lines 278-283
ERROR_MESSAGE_CONST ==
    (2 :> "exit2: unable to start or run") @@ (3 :> "exit3: interrupted by the user") @@
    (4 :> "exit4: internal error") @@ (5 :> "exit5: unable to find any tests")

\* the exit statuses of the host (docstring, lines 357-362); 6 is an unexpected code
ExitStatuses == 0..6

\* variant: discovery answers exit status 5 with an error node
DiscoveryExpected_without5(exitstatus) == exitstatus = 0 \/ exitstatus = 1

\* line 370: the statuses discovery does not answer with an error node
DiscoveryExpected(exitstatus) == exitstatus = 0 \/ exitstatus = 1 \/ exitstatus = 5

\* variant: execution takes exit status 5 for success
ExecutionSuccess_with5(exitstatus) == exitstatus = 0 \/ exitstatus = 1 \/ exitstatus = 5

\* line 400: the statuses execution takes for success
ExecutionSuccess(exitstatus) == exitstatus = 0 \/ exitstatus = 1

Fin(ch, errors, exc, ph) == [ch |-> ch, errors |-> errors, raised |-> exc, phase |-> ph]

Sent(r, errors) ==
    Fin(r.ch, errors, IF r.exc THEN "VSCodePytestError" ELSE "none", "finished")

\* lines 413-416
SendEOT(ch, errors) ==
    Sent(send_post_request(ch, EOTPayload(IF IS_DISCOVERY THEN "discovery"
                                          ELSE "execution")), errors)

\* r is what a send returned: the exception leaves the hook, or the EOT follows
ThenEOT(r, errors) ==
    IF r.exc THEN Fin(r.ch, errors, "VSCodePytestError", "finished")
    ELSE SendEOT(r.ch, errors)

\* variant: the except branch posts the error node without recording the exception
DiscoveryExcept_without_append(ch, errors, cwd) ==
    ThenEOT(post_response(ch, errors, cwd, errorNode(cwd)), errors)

\* the except branch, lines 387-398
DiscoveryExcept(ch, errors, cwd) ==
    ThenEOT(post_response(ch, Append(errors, "traceback"), cwd, errorNode(cwd)),
            Append(errors, "traceback"))

\* line 386 and what follows it: r is what post_response(cwd, session_node) returned
AfterTreePost(r, errors, cwd) ==
    IF r.exc THEN DiscoveryExcept(r.ch, errors, cwd)
    ELSE SendEOT(r.ch, errors)

\* the try block, lines 379-386: b is what build_test_tree came to
AfterBuild(b, ch, cwd) ==
    IF b.status = "diverge" THEN Fin(ch, b.errors, "none", "hung")
    ELSE IF b.status = "raise" THEN DiscoveryExcept(ch, b.errors, cwd)
    ELSE AfterTreePost(post_response(ch, b.errors, cwd, TreeOf(b)), b.errors, cwd)

DiscoveryTry(r, cwd) ==
    IF r.exc THEN Fin(r.ch, ERRORS, "VSCodePytestError", "finished")
    ELSE AfterBuild(build_test_tree(session, ERRORS), r.ch, cwd)

\* lines 369-398
FinishDiscovery(exitstatus, cwd) ==
    DiscoveryTry(IF ~DiscoveryExpected(exitstatus)
                 THEN post_response(Chan, ERRORS, cwd, errorNode(cwd))
                 ELSE [ch |-> Chan, exc |-> FALSE],
                 cwd)

\* lines 399-412
FinishExecution(exitstatus, cwd) ==
    IF ExecutionSuccess(exitstatus) THEN SendEOT(Chan, ERRORS)
    ELSE IF exitstatus \notin DOMAIN ERROR_MESSAGE_CONST
    THEN Fin(Chan, ERRORS, "KeyError", "finished")
    ELSE ThenEOT(execution_post(Chan, Append(ERRORS, ERROR_MESSAGE_CONST[exitstatus]),
                                cwd, "error", <<>>),
                 Append(ERRORS, ERROR_MESSAGE_CONST[exitstatus]))

\* the host reports 5 only when nothing was collected (docstring, line 362)
HostExit(exitstatus) == exitstatus = 5 => session.items = <<>>

Finished(f, exitstatus) ==
    /\ ERRORS' = f.errors
    /\ writer' = f.ch.writer
    /\ sent' = f.ch.sent
    /\ lost' = f.ch.lost
    /\ raised' = f.raised
    /\ phase' = f.phase
    /\ tree' = [exitstatus |-> exitstatus]

pytest_sessionfinish ==
    /\ phase = "running"
    /\ \E exitstatus \in ExitStatuses :
          /\ HostExit(exitstatus)
          /\ Finished(IF IS_DISCOVERY
                      THEN FinishDiscovery(exitstatus, SymlinkCwd)
                      ELSE FinishExecution(exitstatus, SymlinkCwd),
                      exitstatus)
    /\ UNCHANGED <<IS_DISCOVERY, map_id_to_path, collected_tests_so_far,
                   TEST_RUN_PIPE, SYMLINK_PATH, args, session, pipe_up, repeated>>

(***************************************************************************)
(* The consumer's end of the pipe (socket_manager.PipeManager, lines       *)
(* 800-804 and 822-834): while it is down a connect raises and a write     *)
(* raises; it goes down and comes up between hooks.                        *)
(***************************************************************************)
pipe_goes_down ==
    /\ phase = "running"
    /\ pipe_up
    /\ pipe_up' = FALSE
    /\ UNCHANGED <<ERRORS, IS_DISCOVERY, map_id_to_path, collected_tests_so_far,
                   TEST_RUN_PIPE, SYMLINK_PATH, writer, sent, phase, args, session,
                   raised, lost, repeated, tree>>

pipe_comes_up ==
    /\ phase = "running"
    /\ ~pipe_up
    /\ pipe_up' = TRUE
    /\ UNCHANGED <<ERRORS, IS_DISCOVERY, map_id_to_path, collected_tests_so_far,
                   TEST_RUN_PIPE, SYMLINK_PATH, writer, sent, phase, args, session,
                   raised, lost, repeated, tree>>

(***************************************************************************)
(* The run of the plugin under the host.                                   *)
(***************************************************************************)
Init ==
    /\ ERRORS = <<>>
    /\ IS_DISCOVERY = FALSE
    /\ map_id_to_path = <<>>
    /\ collected_tests_so_far = <<>>
    /\ TEST_RUN_PIPE \in BOOLEAN
    /\ SYMLINK_PATH = None
    /\ writer = FALSE
    /\ sent = <<>>
    /\ phase = "init"
    /\ \E sc \in Scenarios : /\ args = sc.args
                             /\ session = SessionFor(sc.args, sc.items)
    /\ raised = "none"
    /\ pipe_up \in BOOLEAN
    /\ lost = 0
    /\ repeated = FALSE
    /\ tree = [exitstatus |-> -1]

Next ==
    \/ pytest_load_initial_conftests
    \/ pytest_internalerror
    \/ pytest_keyboard_interrupt
    \/ pytest_exception_interact
    \/ pytest_report_teststatus
    \/ pytest_runtest_protocol
    \/ pytest_sessionfinish
    \/ pipe_goes_down
    \/ pipe_comes_up

Spec == Init /\ [][Next]_vars

(***************************************************************************)
(* build_test_tree on its own: the session comes with every item list of   *)
(* up to MaxItems items of the pool, with and without a symlinked root.    *)
(***************************************************************************)
ItemPool == {T_a, T_s, T_x1, T_x2, A_a, A_x1, B_x1, I_a, O_a, D_a, U_a, V_a, L_a, N_x}

RECURSIVE ItemLists(_)
ItemLists(n) ==
    IF n = 0 THEN {<<>>}
    ELSE ItemLists(n - 1)
         \cup {Append(l, x) : l \in {m \in ItemLists(n - 1) : Len(m) = n - 1},
                              x \in ItemPool}

NotBuilt == [status |-> "none"]

InitTree ==
    /\ ERRORS = <<>>
    /\ IS_DISCOVERY = TRUE
    /\ map_id_to_path = <<>>
    /\ collected_tests_so_far = <<>>
    /\ TEST_RUN_PIPE = TRUE
    /\ SYMLINK_PATH \in {None, LinkProj}
    /\ writer = FALSE
    /\ sent = <<>>
    /\ phase = "collected"
    /\ args = Args(TRUE, SYMLINK_PATH)
    /\ \E items \in ItemLists(MaxItems) : session = SessionFor(args, items)
    /\ raised = "none"
    /\ pipe_up = TRUE
    /\ lost = 0
    /\ repeated = FALSE
    /\ tree = NotBuilt

\* session_node = build_test_tree(session), line 380
BuildTree ==
    /\ phase = "collected"
    /\ tree' = build_test_tree(session, ERRORS)
    /\ ERRORS' = tree'.errors
    /\ phase' = "built"
    /\ UNCHANGED <<IS_DISCOVERY, map_id_to_path, collected_tests_so_far, TEST_RUN_PIPE,
                   SYMLINK_PATH, writer, sent, args, session, raised, pipe_up, lost,
                   repeated>>

TreeSpec == InitTree /\ [][BuildTree]_vars

(***************************************************************************)
(* Properties.  A message counts as sent when it was handed to the writer. *)
(***************************************************************************)
IsResult(m) == m.kind = "execution" /\ m.result # <<>>
Indices(kind) == {i \in 1..Len(sent) : sent[i].kind = kind}
ModeKind == IF IS_DISCOVERY THEN "discovery" ELSE "execution"

\* the endpoint is configured and the first send of the run could connect
ChannelUsable == TEST_RUN_PIPE /\ (writer \/ pipe_up)

\* a step of pytest_sessionfinish that returned or raised
FinishStep == phase = "running" /\ phase' = "finished"

ExitEntries(errors) ==
    {i \in 1..Len(errors) : \E e \in DOMAIN ERROR_MESSAGE_CONST :
                                errors[i] = ERROR_MESSAGE_CONST[e]}

\* the payloads of this step that carry status "error" with an exit status entry
ExitErrorPayloads ==
    {i \in (Len(sent) + 1)..Len(sent') :
        sent'[i].status = "error" /\ ExitEntries(sent'[i].error) # {}}

\* C1: in execution mode at most one execution payload carrying a result is
\* sent per absolute test id, whatever the hooks and their order: every id is
\* recorded once, and every result sent is the result of a recorded id.
C1_OneResultPerId ==
    /\ \A i, j \in 1..Len(collected_tests_so_far) :
           i # j => collected_tests_so_far[i] # collected_tests_so_far[j]
    /\ \A i, j \in Indices("execution") :
           (i < j /\ IsResult(sent[i]) /\ IsResult(sent[j]))
               => sent[i].result[1].test # sent[j].result[1].test
    /\ \A i \in Indices("execution") :
           IsResult(sent[i]) => ~NotCollected(sent[i].result[1].test)

\* a hook came upon an id that was reported before, and only one result was sent
C1_Witness ==
    /\ repeated
    /\ Len(collected_tests_so_far) = 1
    /\ Len(sent) = 1
    /\ IsResult(sent[1])

\* C2: every run that reaches pytest_sessionfinish sends the end of
\* transmission exactly once, for every exit status and in both modes.
C2_EotExactlyOnce ==
    (phase = "finished" /\ ChannelUsable) => Cardinality(Indices("eot")) = 1

\* C3: the messages of a run are payloads of the mode of the run only,
\* followed by the end of transmission, and nothing follows it.
C3_MessageOrder ==
    /\ \A i \in 1..Len(sent) :
           IF sent[i].kind = "eot" THEN i = Len(sent) ELSE sent[i].kind = ModeKind
    /\ (phase = "finished" /\ ChannelUsable)
           => (sent # <<>> /\ sent[Len(sent)].kind = "eot")

\* C4: a discovery run sends exactly one discovery payload at session
\* finish, for every exit status.
C4_OneDiscoveryPayload ==
    (phase = "finished" /\ IS_DISCOVERY /\ ChannelUsable)
        => Cardinality(Indices("discovery")) = 1

\* C5: the status of every discovery and execution payload is "error" if
\* and only if its error list is not empty.
C5_StatusMatchesErrors ==
    \A i \in 1..Len(sent) :
        sent[i].kind # "eot" => (sent[i].status = "error" <=> sent[i].error # <<>>)

\* C6: at session finish an exit status of 2, 3, 4 or an unexpected code
\* appends an entry to the error list, in both modes.
C6_AbnormalExitAppends ==
    [][(FinishStep /\ tree'.exitstatus \in {2, 3, 4, 6})
           => Len(ERRORS') > Len(ERRORS)]_vars

\* no entry and no error payload on account of the exit status
NothingForExit == ExitEntries(ERRORS') = ExitEntries(ERRORS) /\ ExitErrorPayloads = {}

C8_NoTestsDiscovery ==
    (phase = "finished" /\ IS_DISCOVERY /\ tree.exitstatus = 5 /\ ChannelUsable)
        => /\ Len(sent) = 2
           /\ sent[1].kind = "discovery"
           /\ sent[1].tests.type_ = "folder"
           /\ sent[1].tests.path = session.path
           /\ sent[2] = EOTPayload("discovery")

C8_Witness ==
    /\ phase = "finished"
    /\ IS_DISCOVERY
    /\ tree.exitstatus = 5
    /\ Len(sent) = 2
    /\ sent[1].tests.children = <<>>
    /\ sent[2].kind = "eot"

\* C9: an execution run that ends with exit status 3 sends at session
\* finish an execution payload of status "error" with a non-empty error
\* list, and then one end of transmission of command type "execution".
C9_InterruptedExecution ==
    (phase = "finished" /\ ~IS_DISCOVERY /\ tree.exitstatus = 3 /\ ChannelUsable)
        => /\ Len(sent) >= 2
           /\ sent[Len(sent) - 1].kind = "execution"
           /\ sent[Len(sent) - 1].status = "error"
           /\ sent[Len(sent) - 1].error # <<>>
           /\ sent[Len(sent)] = EOTPayload("execution")
           /\ Cardinality(Indices("eot")) = 1

C9_Witness ==
    /\ phase = "finished"
    /\ ~IS_DISCOVERY
    /\ tree.exitstatus = 3
    /\ Len(sent) = 3
    /\ IsResult(sent[1])
    /\ sent[2].error = <<ERROR_MESSAGE_CONST[3]>>
    /\ sent[3].kind = "eot"

\* the test leaves of a serialised tree
RECURSIVE Leaves(_)
RECURSIVE LeavesOf(_, _)
LeavesOf(children, k) ==
    IF k > Len(children) THEN 0 ELSE Leaves(children[k]) + LeavesOf(children, k + 1)
Leaves(v) == IF v.type_ = "test" THEN 1 ELSE LeavesOf(v.children, 1)

\* C10: when build_test_tree returns, the test leaves reachable from the
\* session node are as many as the items of the session.
C10_LeafPerItem ==
    (phase = "built" /\ tree.status = "ok")
        => Leaves(TreeOf(tree)) = Len(session.items)

\* the nodes of a built tree that are reachable from the session node
RECURSIVE ReachFrom(_, _)
ReachFrom(heap, S) ==
    LET N == S \cup {heap[p].children[k] : <<p, k>> \in
                        {<<q, j>> \in S \X (1..Len(heap)) : j <= Len(heap[q].children)}}
    IN IF N = S THEN S ELSE ReachFrom(heap, N)

TreeNodes == ReachFrom(tree.heap, {SessionRoot})

\* the places (parent, position) at which node n is a child
ParentSlots(n) ==
    {<<p, k>> \in TreeNodes \X (1..Len(tree.heap)) :
        k <= Len(tree.heap[p].children) /\ tree.heap[p].children[k] = n}

Returned == phase = "built" /\ tree.status = "ok"

\* C11: in a returned tree the session node is the one root and every other
\* node is in the children list of exactly one parent, once.
C11_OneParent ==
    Returned => \A n \in TreeNodes :
                    Cardinality(ParentSlots(n)) = IF n = SessionRoot THEN 0 ELSE 1

\* C12: in a returned tree no two distinct nodes have the same id.
C12_UniqueIds ==
    Returned => \A m, n \in TreeNodes :
                    m # n => tree.heap[m].id_ # tree.heap[n].id_

\* C13: in a returned tree, with or without a symlink root, the path of the
\* parent of a node is the path of the node or a filesystem ancestor of it.
C13_ParentPathIsAncestor ==
    Returned => \A p \in TreeNodes : \A k \in 1..Len(tree.heap[p].children) :
                    IsPrefix(tree.heap[p].path, tree.heap[tree.heap[p].children[k]].path)

\* a tree under the symlink root with a folder between the session and a file
C13_Witness ==
    /\ Returned
    /\ SYMLINK_PATH = LinkProj
    /\ \E f \in TreeNodes : /\ tree.heap[f].type_ = "folder"
                            /\ f # SessionRoot
                            /\ tree.heap[f].path = LinkProj \o <<"pkg">>
    /\ \E c \in TreeNodes : tree.heap[c].type_ = "class"

Last(q) == q[Len(q)]
NodesOfType(t) == {n \in TreeNodes : tree.heap[n].type_ = t}

\* the function nodes that hold test node t
FunctionParents(t) ==
    {f \in NodesOfType("function") :
        \E k \in 1..Len(tree.heap[f].children) : tree.heap[f].children[k] = t}

\* C14: the variants of one parameterized test (one file path, one base
\* name) are the children of one function node named after the base name,
\* each under the name of its bracketed suffix.
C14_VariantsShareFunctionNode ==
    Returned =>
        /\ \A f, g \in NodesOfType("function") :
               (tree.heap[f].path = tree.heap[g].path
                    /\ tree.heap[f].name = tree.heap[g].name) => f = g
        /\ \A t \in NodesOfType("test") :
               HasBracket(Last(tree.heap[t].runID.rest)) =>
                   /\ tree.heap[t].name = BracketTail(Last(tree.heap[t].runID.rest))
                   /\ Cardinality(FunctionParents(t)) = 1
                   /\ \A f \in FunctionParents(t) :
                          /\ tree.heap[f].name = BracketHead(Last(tree.heap[t].runID.rest))
                          /\ tree.heap[f].path = tree.heap[t].path

\* test_x[1] and test_x[2] of t.py: one function node test_x, children [1] and [2]
C14_Witness ==
    /\ Returned
    /\ session.items = <<T_x1, T_x2>>
    /\ \E f \in NodesOfType("function") :
           /\ tree.heap[f].name = "test_x"
           /\ Len(tree.heap[f].children) = 2
           /\ tree.heap[tree.heap[f].children[1]].name = "[1]"
           /\ tree.heap[tree.heap[f].children[2]].name = "[2]"
    /\ Cardinality(NodesOfType("function")) = 1

\* the items whose test node t can be: same later segments, same resolved path
ItemsOf(t) ==
    {i \in 1..Len(session.items) :
        /\ get_node_path(session.items[i], FALSE) = Ok(tree.heap[t].path)
        /\ session.items[i].nodeid.rest = tree.heap[t].id_.rest}

\* C15: the id of a test node is the id the host gave the item with its
\* first segment replaced by the resolved path of the node and the later
\* segments kept in order, and the runID of the node is this id.
C15_AbsoluteTestId ==
    Returned => \A t \in NodesOfType("test") :
                    /\ tree.heap[t].id_.head = tree.heap[t].path
                    /\ ItemsOf(t) # {}
                    /\ tree.heap[t].runID = tree.heap[t].id_

\* a test of a nested class under the symlink root
C15_Witness ==
    /\ Returned
    /\ SYMLINK_PATH = LinkProj
    /\ \E t \in NodesOfType("test") :
           tree.heap[t].id_ = [head |-> LinkProj \o <<"t.py">>,
                               rest |-> <<"A", "Inner", "test_a">>]

(***************************************************************************)
(* get_node_path on its own: a node with a path or an fspath, a session or *)
(* not, under every symlink root the start-up can record.                  *)
(***************************************************************************)
PathPool ==
    {Cwd, Cwd \o <<"t.py">>, Cwd \o <<"pkg">>, Cwd \o <<"pkg", "test_a.py">>,
     <<"/", "real", "other", "v.py">>, <<"/", "real">>, <<"/">>,
     LinkProj, LinkProj \o <<"w.py">>, LinkProj \o <<"pkg", "test_a.py">>,
     <<"/", "link">>, SymProj, SymProj \o <<"t.py">>}

SymlinkRoots == {None, LinkProj, SymProj, LinkProj \o <<"pkg">>}

PathNodes ==
    {[path |-> p, fspath |-> f, items |-> <<>>] :
        p \in PathPool \cup {None}, f \in {None, Cwd \o <<"t.py">>}}

InitPath ==
    /\ ERRORS = <<>>
    /\ IS_DISCOVERY = TRUE
    /\ map_id_to_path = <<>>
    /\ collected_tests_so_far = <<>>
    /\ TEST_RUN_PIPE = TRUE
    /\ SYMLINK_PATH \in SymlinkRoots
    /\ writer = FALSE
    /\ sent = <<>>
    /\ phase = "called"
    /\ args = Args(TRUE, SYMLINK_PATH)
    /\ session \in PathNodes
    /\ raised = "none"
    /\ pipe_up = TRUE
    /\ lost = 0
    /\ repeated = FALSE
    /\ \E is_session \in BOOLEAN : tree = [is_session |-> is_session, result |-> Raise]

\* get_node_path(node), lines 689-722
ResolvePath ==
    /\ phase = "called"
    /\ tree' = [tree EXCEPT !.result = get_node_path(session, tree.is_session)]
    /\ raised' = IF tree'.result.ok THEN "none" ELSE "VSCodePytestError"
    /\ phase' = "resolved"
    /\ UNCHANGED <<ERRORS, IS_DISCOVERY, map_id_to_path, collected_tests_so_far,
                   TEST_RUN_PIPE, SYMLINK_PATH, writer, sent, args, session, pipe_up,
                   lost, repeated>>

PathSpec == InitPath /\ [][ResolvePath]_vars

Resolved == phase = "resolved"
NodePath == node_path_of(session)

\* C16: under a symlink root, get_node_path of a node that is not the
\* session returns the path of the node when it lies under the root, and
\* else the root joined with the path relative to the working directory.
C16_SymlinkEquivalent ==
    (Resolved /\ SYMLINK_PATH # None /\ ~tree.is_session /\ NodePath # None) =>
        IF IsPrefix(SYMLINK_PATH, NodePath) THEN tree.result = Ok(NodePath)
        ELSE IF IsPrefix(Cwd, NodePath)
        THEN tree.result = Ok(SYMLINK_PATH \o SubSeq(NodePath, Len(Cwd) + 1, Len(NodePath)))
        ELSE ~tree.result.ok

\* /real/proj/pkg/test_a.py with /real/proj linked as /link/proj
C16_Witness ==
    /\ Resolved
    /\ SYMLINK_PATH = LinkProj
    /\ ~tree.is_session
    /\ session.path = Cwd \o <<"pkg", "test_a.py">>
    /\ tree.result = Ok(LinkProj \o <<"pkg", "test_a.py">>)

\* C17: whenever a symlink root is recorded, get_node_path of the session
\* returns the recorded root, whatever path the session carries.
C17_SessionIsSymlinkRoot ==
    (Resolved /\ SYMLINK_PATH # None /\ tree.is_session)
        => tree.result = Ok(SYMLINK_PATH)

\* a build of the session's items that an exception left (lines 379-387), and
\* the two ways get_node_path fails: lines 696-700 and lines 710-721
BuildRaised == build_test_tree(session, <<>>).status = "raise"
NoPathItem == \E i \in 1..Len(session.items) : node_path_of(session.items[i]) = None
OutsideCwdItem ==
    /\ SYMLINK_PATH # None
    /\ \E i \in 1..Len(session.items) : ~get_node_path(session.items[i], FALSE).ok

\* C18: when path resolution fails for a node while a discovery run builds
\* its tree, the discovery payload sent is the degraded one: its tests are an
\* error-typed node with empty children, its status is "error", its error
\* list is non-empty, and the end of transmission follows it.
C18_ResolutionFailureDegrades ==
    (phase = "finished" /\ IS_DISCOVERY /\ ChannelUsable /\ BuildRaised) =>
        /\ Len(sent) >= 2
        /\ sent[Len(sent)] = EOTPayload("discovery")
        /\ sent[Len(sent) - 1].kind = "discovery"
        /\ sent[Len(sent) - 1].tests = errorNode(SymlinkCwd)
        /\ sent[Len(sent) - 1].status = "error"
        /\ sent[Len(sent) - 1].error # <<>>
        /\ \A i \in Indices("discovery") :
              sent[i].tests.type_ = "error" /\ sent[i].tests.children = <<>>

C18_Witness ==
    /\ phase = "finished"
    /\ IS_DISCOVERY
    /\ OutsideCwdItem
    /\ Len(sent) = 2
    /\ sent[1].tests.type_ = "error"
    /\ sent[1].status = "error"
    /\ sent[2].kind = "eot"

C18_WitnessNoPath ==
    /\ phase = "finished"
    /\ IS_DISCOVERY
    /\ NoPathItem
    /\ Len(sent) = 2
    /\ sent[1].tests.type_ = "error"
    /\ sent[2].kind = "eot"
\* the items whose parent chain is classes only (case_iter ends as None, line 487)
OrphanItems ==
    {i \in 1..Len(session.items) :
        /\ Len(session.items[i].chain) > 0
        /\ \A k \in 1..Len(session.items[i].chain) :
              session.items[i].chain[k].kind = "class"}

\* item i has its test node in the returned tree
Placed(i) ==
    \E t \in NodesOfType("test") :
        tree.heap[t].id_ = get_absolute_test_id(session.items[i].nodeid,
                                                tree.heap[t].path)

\* C19: when an item's class chain ends without a file ancestor, the build
\* that returns has recorded the structural error, and every item that follows
\* that item in session.items has its test node in the returned tree.
C19_LaterItemsPlaced ==
    (Returned /\ OrphanItems # {}) =>
        /\ "no_parent" \in Range(tree.errors)
        /\ \A i \in OrphanItems : \A j \in (i + 1)..Len(session.items) :
              j \notin OrphanItems => Placed(j)
\* the first send of the run could not connect (lines 800-814): an id was
\* recorded for a report (lines 138, 261, 295) and nothing reached the writer
FirstSendFailed == TEST_RUN_PIPE /\ collected_tests_so_far # <<>> /\ sent = <<>>

\* the three configuration errors: TEST_RUN_PIPE unset (lines 61, 788-796),
\* a --rootdir that does not exist (lines 75-81), no connection at the first send
ConfigurationError == ~TEST_RUN_PIPE \/ phase = "aborted" \/ FirstSendFailed

\* C20: after a configuration error (endpoint variable unset, root directory
\* argument naming no existing path, or no connection at the first send) no
\* step of the run hands a payload to the channel.
C20_NoPayloadAfterConfigurationError ==
    [][ConfigurationError => sent' = <<>>]_vars

\* the part of C20 that does not depend on the pipe: with the endpoint
\* variable unset or the run aborted on --rootdir nothing is ever sent, and a
\* session finish that came to a send raised VSCodePytestError
C20_UnsetOrInvalidRoot ==
    (~TEST_RUN_PIPE \/ phase = "aborted") =>
        /\ sent = <<>>
        /\ ~writer
        /\ phase \in {"aborted", "finished"} => raised \in {"VSCodePytestError", "KeyError"}
\* a step in which a payload was handed to a connected writer while the pipe
\* was down: the write of line 824 raised and lines 830-834 printed it
WriteFailed == writer /\ ~pipe_up /\ Len(sent') > Len(sent)

\* a hook of the running session whose one write failed: nothing is raised,
\* the write is made once, ERRORS is as before and the id stays recorded
FailedWriteSwallowed ==
    (phase' = "running" /\ WriteFailed) =>
        /\ raised' = "none"
        /\ writer'
        /\ Len(sent') = Len(sent) + 1
        /\ lost' = Len(sent')
        /\ ERRORS' = ERRORS
        /\ collected_tests_so_far' =
              Append(collected_tests_so_far, sent'[Len(sent')].result[1].test)

\* after a failed write a hook that records a new id makes a new send
LaterTestsStillSent ==
    (lost > 0 /\ Len(collected_tests_so_far') > Len(collected_tests_so_far))
        => Len(sent') = Len(sent) + 1

\* a session finish of a run with a failed write ends with the EOT send
EotStillAttempted ==
    (FinishStep /\ lost' > 0) => sent'[Len(sent')].kind = "eot"

\* C21: once the channel is connected a failed write does not raise to the
\* hook and is not retried, the reported ids and the error list are as a
\* successful send leaves them, later tests are reported through new sends,
\* and the session finish still attempts the EOT send.
C21_WriteFailureDoesNotAbort ==
    [][FailedWriteSwallowed /\ LaterTestsStillSent /\ EotStillAttempted]_vars

\* the part of C21 that concerns the hooks of the running session
C21_WriteFailureSwallowed == [][FailedWriteSwallowed /\ LaterTestsStillSent]_vars

\* the EOT of C21 for the exit statuses line 404 has a message for
C21_EotUnlessKeyError ==
    [][(FinishStep /\ lost' > 0 /\ raised' # "KeyError")
          => sent'[Len(sent')].kind = "eot"]_vars
\* the id pytest_runtest_protocol reports a skipped item under, lines 289-293
ProtocolId(item) ==
    get_absolute_test_id(item.nodeid, get_node_path(item, FALSE).path)

\* the result payloads sent so far for an id, by index
ResultsFor(msgs, id) ==
    {i \in 1..Len(msgs) : IsResult(msgs[i]) /\ msgs[i].result[1].test = id}

\* the items flagged skipped whose path get_node_path resolves
SkippedItems ==
    {item \in Range(session.items) :
        get_node_path(item, FALSE).ok /\ check_skipped_wrapper(item)}

\* the first pytest_runtest_protocol of a skipped item, its id not reported
\* yet and the channel connected or connectable: one payload, "skipped"
SkipDelivered(item) ==
    (/\ ~HasKey(map_id_to_path, item.nodeid)
     /\ HasKey(map_id_to_path', item.nodeid)
     /\ ProtocolId(item) \notin Range(collected_tests_so_far)
     /\ ChannelUsable)
        => /\ Len(sent') = Len(sent) + 1
           /\ ResultsFor(sent', ProtocolId(item)) = {Len(sent')}
           /\ sent'[Len(sent')].result[1].outcome = "skipped"

\* once the skip of an item is delivered no step replaces it or adds to it
SkipStays(item) ==
    (/\ HasKey(map_id_to_path, item.nodeid)
     /\ \E i \in ResultsFor(sent, ProtocolId(item)) :
            sent[i].result[1].outcome = "skipped")
        => /\ ResultsFor(sent', ProtocolId(item)) = ResultsFor(sent, ProtocolId(item))
           /\ SubSeq(sent', 1, Len(sent)) = sent

\* C22: in execution mode an item flagged skipped when its
\* pytest_runtest_protocol runs is delivered once, as "skipped", and no later
\* pytest_report_teststatus or pytest_exception_interact of the item
\* replaces that payload or sends another for its id.
C22_SkipWins ==
    [][~IS_DISCOVERY => \A item \in SkippedItems :
                           SkipDelivered(item) /\ SkipStays(item)]_vars

\* the skip was delivered and a later hook of the item found the id reported
C22_Witness ==
    /\ ~IS_DISCOVERY
    /\ session.items = <<T_s>>
    /\ HasKey(map_id_to_path, T_s.nodeid)
    /\ repeated
    /\ Len(sent) = 1
    /\ sent[1].result[1] = [test |-> ProtocolId(T_s), outcome |-> "skipped",
                            message |-> ""]
\* entry k of ERRORS is in the error field of a discovery or execution payload
\* (ERRORS only grows, so a payload holding position k was built after the append)
Surfaced(k) ==
    \E i \in Indices("discovery") \cup Indices("execution") :
        /\ k <= Len(sent[i].error)
        /\ sent[i].error[k] = ERRORS[k]
        /\ \A j \in Indices("eot") : i < j

\* C23: when the run has finished every entry of the error list was carried
\* by the error field of some discovery or execution payload sent after the
\* entry was appended and before the EOT, in both modes and for every exit
\* status, 0 and 1 in execution mode included.
C23_ErrorsSurfaced ==
    (phase = "finished" /\ ChannelUsable) => \A k \in 1..Len(ERRORS) : Surfaced(k)

\* the part of C23 that holds: discovery runs, and execution runs that end
\* with an exit status line 404 has a message for
C23_SurfacedAtErrorExit ==
    (/\ phase = "finished"
     /\ ChannelUsable
     /\ IS_DISCOVERY \/ tree.exitstatus \in DOMAIN ERROR_MESSAGE_CONST)
        => \A k \in 1..Len(ERRORS) : Surfaced(k)
\* C24: for every file node the walk of build_nested_folders comes to the
\* path of the session after finitely many steps to the parent directory,
\* also under a symlink root and for a file that is not below the path
\* get_node_path returns for the session: no build is left in a walk that
\* has passed the filesystem root.
C24_FolderWalkTerminates == phase = "built" => tree.status # "diverge"
\* the items that are plain tests of the class with this nodeid: each gets
\* its own test node (line 437) and the class is its first parent (line 470)
TestsOfClass(nodeid) ==
    {i \in 1..Len(session.items) :
        /\ ~session.items[i].callspec
        /\ ParentIsClass(session.items[i])
        /\ session.items[i].chain[1].nodeid = nodeid}

\* the places among the children of node c that hold a test node
TestSlots(c) ==
    {k \in 1..Len(tree.heap[c].children) :
        tree.heap[tree.heap[c].children[k]].type_ = "test"}

\* C25: a child is left out of a class, file or folder node only when that
\* very node is among the children already: the test nodes made for the
\* items of one class are all children of the class node, also when two of
\* them are equal in every field.
C25_EqualNodesBothKept ==
    (Returned /\ OrphanItems = {}) =>
        \A i \in 1..Len(tree.class_nodes_dict) :
            Cardinality(TestSlots(tree.class_nodes_dict[i].val))
                = Cardinality(TestsOfClass(tree.class_nodes_dict[i].key))
\* the links at or above a path, in the filesystem of the run
LinksAbove(p) == {q \in Parents(p) \cup {p} : q \in Links}

\* pytest_load_initial_conftests returned for a --rootdir that exists
StartedWithRootdir == phase \notin {"init", "aborted"} /\ args.rootdir # None

\* C26 as the code has it: for a --rootdir that exists a symlink root is
\* recorded exactly when the root directory or one of its ancestors is a
\* symbolic link, and the value recorded is the root directory argument.
C26_SymlinkRootIsRootdir ==
    StartedWithRootdir =>
        /\ SYMLINK_PATH # None <=> LinksAbove(args.rootdir) # {}
        /\ SYMLINK_PATH # None => SYMLINK_PATH = args.rootdir

\* C26 as stated: for a --rootdir that exists a symlink root is recorded
\* exactly when the root directory or one of its ancestors is a symbolic
\* link, and the value recorded is the path of the link that was found.
C26_SymlinkRootIsLink ==
    StartedWithRootdir =>
        /\ SYMLINK_PATH # None <=> LinksAbove(args.rootdir) # {}
        /\ SYMLINK_PATH # None => SYMLINK_PATH \in LinksAbove(args.rootdir)

\* the root directory lies below a link and is recorded itself
C26_Witness ==
    /\ phase = "running"
    /\ args.rootdir = SymProj
    /\ LinksAbove(args.rootdir) = {<<"/", "sym">>}
    /\ SYMLINK_PATH = SymProj
\* pytest_exception_interact for a test of the run that raised typename, its
\* id not reported before, on a channel that is set and connectable
UserTestRaised(node, typename) ==
    /\ phase = "running"
    /\ ~IS_DISCOVERY
    /\ exception_interact(node, typename, FALSE)
    /\ get_node_path(node, FALSE).ok
    /\ ProtocolId(node) \notin Range(collected_tests_so_far)
    /\ ChannelUsable

====
